---- MODULE Spec2Model ----
(***************************************************************************)
(* TVirtualMutex.h: the abstract lock interface TVirtualMutex, the scoped  *)
(* guard TLockGuard and the suspend guard ROOT::TLockSuspend, driven by    *)
(* several client threads, and the locking macros R__LOCKGUARD,            *)
(* R__LOCKGUARD2, R__LOCKGUARD_IMT and R__LOCKGUARD_IMT2.                   *)
(*                                                                         *)
(* Specifications: Spec (clients calling the operations in any order),     *)
(* SpecErr (the same over a backend that reports deadlocks), SpecMacro     *)
(* (threads running the macros) and SpecSuspend (a thread suspending its   *)
(* hold while another works under the lock, with fairness).                *)
(*                                                                         *)
(* The header declares Lock, TryLock, UnLock, Reset and Restore as pure    *)
(* virtual functions; the concrete backend is not part of the header, so   *)
(* the backend operators below follow the interface description (a         *)
(* recursive exclusive lock with an owner and a count).  Acquire, Release, *)
(* TLockGuard and TLockSuspend are translated from the header.             *)
(*                                                                         *)
(* Every method is a state transformer: it takes the map of lock states,   *)
(* the calling thread and the object's fields and yields the new map, the  *)
(* object's new fields, the returned status, the list of calls it issued   *)
(* on the interface, and whether the call blocks in that state.            *)
(***************************************************************************)
EXTENDS Integers, Sequences, FiniteSets, TLC

\* Longest chain of nested frames (raw holds and guards) thread A opens when
\* the clients work on one lock; one less when they work on both locks.
MaxStack == 3

Threads == {"A", "B"}
Locks == {"M1", "M2"}
\* A null TVirtualMutex pointer.
Null == "null"
NoThread == "none"

VARIABLES
    used,       \* the locks the client threads work on
    mtx,        \* mtx[m]: the backend state of lock m, [owner, count]
    stack,      \* stack[t]: the frames thread t has open, innermost last
    unwinding,  \* unwinding[t]: an exception is propagating in thread t
    last,       \* the operation completed last: which, by whom, on which
                \* object, the calls it issued on the interface, its status,
                \* the lock map before it
    detect,     \* the locks whose backend detects a deadlock and reports an
                \* error status instead of waiting
    glob,       \* the globals the macros read: gGlobalMutex, the mutex
                \* pointer handed to the macro, the parallel-branch switch,
                \* and the number of Factory() calls made so far
    pc,         \* pc[t]: where thread t is in the program it runs
    misused     \* the threads that have called UnLock() on a TLockGuard
                \* while a TLockSuspend of theirs on the same lock was open
                \* above it: an unlock() without a hold to match

\* The variables the client operations leave alone, but for the UnLock() of
\* a guard, which records an unmatched unlock().
env == <<detect, glob, pc, misused>>

vars == <<used, mtx, stack, unwinding, last, detect, glob, pc, misused>>

-----------------------------------------------------------------------------
(* The backend behind the pure virtual interface.                          *)

Unlocked == [owner |-> NoThread, count |-> 0]

\* An empty std::unique_ptr<State>.
NullState == [lock |-> Null, depth |-> 0]

\* The calling thread can take the lock without waiting.
CanLock(s, t, m) == s[m].owner \in {NoThread, t}

\* Hold depth of thread t on lock m in lock map s.
DepthIn(s, t, m) == IF s[m].owner = t THEN s[m].count ELSE 0

HoldDepth(t, m) == DepthIn(mtx, t, m)

\* lock(): blocks until the lock is free or already owned by the caller, then
\* adds one level.  A backend with deadlock detection (m \in detect) does
\* not wait for a lock another thread holds: it takes nothing and returns
\* a nonzero status.
Lock(s, t, m) ==
    IF ~CanLock(s, t, m) /\ m \in detect
    THEN [blocked |-> FALSE, mtx |-> s, ret |-> 1]
    ELSE [blocked |-> ~CanLock(s, t, m),
          mtx |-> [s EXCEPT ![m] = [owner |-> t, count |-> s[m].count + 1]],
          ret |-> 0]

\* try_lock(): as lock() when that would not wait (status 0), else no change
\* and a nonzero status.
TryLock(s, t, m) ==
    IF CanLock(s, t, m)
    THEN [blocked |-> FALSE,
          mtx |-> [s EXCEPT ![m] = [owner |-> t, count |-> s[m].count + 1]],
          ret |-> 0]
    ELSE [blocked |-> FALSE, mtx |-> s, ret |-> 1]

\* unlock(): releases one level held by the caller; a caller that holds
\* nothing gets a nonzero status and changes nothing.
UnLock(s, t, m) ==
    IF s[m].owner = t
    THEN [blocked |-> FALSE,
          mtx |-> [s EXCEPT ![m] = IF s[m].count = 1 THEN Unlocked
                                   ELSE [owner |-> t, count |-> s[m].count - 1]],
          ret |-> 0]
    ELSE [blocked |-> FALSE, mtx |-> s, ret |-> 1]

\* reset(): releases every level the caller holds and returns them as a
\* snapshot; a caller that holds nothing gets the snapshot "unheld".
Reset(s, t, m) ==
    IF s[m].owner = t
    THEN [blocked |-> FALSE,
          mtx |-> [s EXCEPT ![m] = Unlocked],
          state |-> [lock |-> m, depth |-> s[m].count]]
    ELSE [blocked |-> FALSE, mtx |-> s, state |-> [lock |-> m, depth |-> 0]]

\* restore(snapshot): takes the lock again to the snapshot's depth, waiting
\* for it like lock(); the snapshot "unheld" takes nothing.
Restore(s, t, m, state) ==
    IF state.depth = 0
    THEN [blocked |-> FALSE, mtx |-> s]
    ELSE [blocked |-> ~CanLock(s, t, m),
          mtx |-> [s EXCEPT ![m] = [owner |-> t,
                                    count |-> s[m].count + state.depth]]]

-----------------------------------------------------------------------------
(* The code of the header.                                                 *)

Call(op, m, state) == [op |-> op, m |-> m, state |-> state]

\* A bug of Acquire(): it calls TryLock() and does not wait.
Acquire_TryLock(s, t, m) == TryLock(s, t, m)

\* Int_t Acquire() { return Lock(); }
Acquire(s, t, m) == Lock(s, t, m)

\* Int_t Release() { return UnLock(); }
Release(s, t, m) == UnLock(s, t, m)

\* A bug of the constructor: it calls TryLock() and drops the status.
TLockGuard_ctor_TryLock(s, t, mutex) ==
    IF mutex # Null
    THEN LET r == TryLock(s, t, mutex)
         IN [blocked |-> FALSE, mtx |-> r.mtx, fMutex |-> mutex,
             fState |-> NullState, ret |-> 0,
             calls |-> <<Call("TryLock", mutex, NullState)>>]
    ELSE [blocked |-> FALSE, mtx |-> s, fMutex |-> mutex,
          fState |-> NullState, ret |-> 0, calls |-> <<>>]

\* TLockGuard(TVirtualMutex *mutex) : fMutex(mutex) { if (fMutex) fMutex->Lock(); }
TLockGuard_ctor(s, t, mutex) ==
    IF mutex # Null
    THEN LET r == Lock(s, t, mutex)
         IN [blocked |-> r.blocked, mtx |-> r.mtx, fMutex |-> mutex,
             fState |-> NullState, ret |-> 0,
             calls |-> <<Call("Lock", mutex, NullState)>>]
    ELSE [blocked |-> FALSE, mtx |-> s, fMutex |-> mutex,
          fState |-> NullState, ret |-> 0, calls |-> <<>>]

\* A bug of UnLock(): fMutex is not cleared.
TLockGuard_UnLock_KeepRef(s, t, fMutex) ==
    IF fMutex = Null
    THEN [blocked |-> FALSE, mtx |-> s, fMutex |-> Null,
          fState |-> NullState, ret |-> 0, calls |-> <<>>]
    ELSE LET r == UnLock(s, t, fMutex)
         IN [blocked |-> FALSE, mtx |-> r.mtx, fMutex |-> fMutex,
             fState |-> NullState, ret |-> r.ret,
             calls |-> <<Call("UnLock", fMutex, NullState)>>]

\* A bug of UnLock(): a guard that holds nothing returns an error status.
TLockGuard_UnLock_NullStatus(s, t, fMutex) ==
    IF fMutex = Null
    THEN [blocked |-> FALSE, mtx |-> s, fMutex |-> Null,
          fState |-> NullState, ret |-> -1, calls |-> <<>>]
    ELSE LET r == UnLock(s, t, fMutex)
         IN [blocked |-> FALSE, mtx |-> r.mtx, fMutex |-> Null,
             fState |-> NullState, ret |-> r.ret,
             calls |-> <<Call("UnLock", fMutex, NullState)>>]

\* A bug of UnLock(): it unlocks but returns 0 whatever unlock() returned.
TLockGuard_UnLock_DropStatus(s, t, fMutex) ==
    IF fMutex = Null
    THEN [blocked |-> FALSE, mtx |-> s, fMutex |-> Null,
          fState |-> NullState, ret |-> 0, calls |-> <<>>]
    ELSE LET r == UnLock(s, t, fMutex)
         IN [blocked |-> FALSE, mtx |-> r.mtx, fMutex |-> Null,
             fState |-> NullState, ret |-> 0,
             calls |-> <<Call("UnLock", fMutex, NullState)>>]

\* Int_t UnLock() { if (!fMutex) return 0; auto tmp = fMutex; fMutex = 0;
\*                  return tmp->UnLock(); }
TLockGuard_UnLock(s, t, fMutex) ==
    IF fMutex = Null
    THEN [blocked |-> FALSE, mtx |-> s, fMutex |-> Null,
          fState |-> NullState, ret |-> 0, calls |-> <<>>]
    ELSE LET tmp == fMutex
             r == UnLock(s, t, tmp)
         IN [blocked |-> FALSE, mtx |-> r.mtx, fMutex |-> Null,
             fState |-> NullState, ret |-> r.ret,
             calls |-> <<Call("UnLock", tmp, NullState)>>]

\* A bug of the destructor: the test is inverted, nothing is unlocked.
TLockGuard_dtor_NoUnLock(s, t, fMutex) ==
    [blocked |-> FALSE, mtx |-> s, fMutex |-> fMutex,
     fState |-> NullState, ret |-> 0, calls |-> <<>>]

\* ~TLockGuard() { if (fMutex) fMutex->UnLock(); }
TLockGuard_dtor(s, t, fMutex) ==
    IF fMutex # Null
    THEN LET r == UnLock(s, t, fMutex)
         IN [blocked |-> FALSE, mtx |-> r.mtx, fMutex |-> fMutex,
             fState |-> NullState, ret |-> 0,
             calls |-> <<Call("UnLock", fMutex, NullState)>>]
    ELSE [blocked |-> FALSE, mtx |-> s, fMutex |-> fMutex,
          fState |-> NullState, ret |-> 0, calls |-> <<>>]

\* A bug of the constructor: the Reset is left out.
TLockSuspend_ctor_NoReset(s, t, mutex) ==
    [blocked |-> FALSE, mtx |-> s, fMutex |-> mutex,
     fState |-> NullState, ret |-> 0, calls |-> <<>>]

\* A bug of the constructor: it releases one level with UnLock() and keeps
\* that as the snapshot.
TLockSuspend_ctor_UnLockOnce(s, t, mutex) ==
    IF mutex # Null
    THEN LET r == UnLock(s, t, mutex)
             st == [lock |-> mutex, depth |-> IF r.ret = 0 THEN 1 ELSE 0]
         IN [blocked |-> FALSE, mtx |-> r.mtx, fMutex |-> mutex,
             fState |-> st, ret |-> 0,
             calls |-> <<Call("UnLock", mutex, NullState)>>]
    ELSE [blocked |-> FALSE, mtx |-> s, fMutex |-> mutex,
          fState |-> NullState, ret |-> 0, calls |-> <<>>]

\* TLockSuspend(TVirtualMutex *mutex) : fMutex(mutex)
\* { if (fMutex) fState = mutex->Reset(); }
TLockSuspend_ctor(s, t, mutex) ==
    IF mutex # Null
    THEN LET r == Reset(s, t, mutex)
         IN [blocked |-> FALSE, mtx |-> r.mtx, fMutex |-> mutex,
             fState |-> r.state, ret |-> 0,
             calls |-> <<Call("Reset", mutex, r.state)>>]
    ELSE [blocked |-> FALSE, mtx |-> s, fMutex |-> mutex,
          fState |-> NullState, ret |-> 0, calls |-> <<>>]

\* A bug of the destructor: the test is inverted, nothing is restored.
TLockSuspend_dtor_NoRestore(s, t, fMutex, fState) ==
    [blocked |-> FALSE, mtx |-> s, fMutex |-> fMutex,
     fState |-> fState, ret |-> 0, calls |-> <<>>]

\* A bug of the destructor: it takes the lock back with one Lock().
TLockSuspend_dtor_LockOnce(s, t, fMutex, fState) ==
    IF fMutex # Null
    THEN LET r == Lock(s, t, fMutex)
         IN [blocked |-> r.blocked, mtx |-> r.mtx, fMutex |-> fMutex,
             fState |-> NullState, ret |-> 0,
             calls |-> <<Call("Lock", fMutex, NullState)>>]
    ELSE [blocked |-> FALSE, mtx |-> s, fMutex |-> fMutex,
          fState |-> fState, ret |-> 0, calls |-> <<>>]

\* A bug of the destructor: it restores through another lock than fMutex.
TLockSuspend_dtor_OtherLock(s, t, fMutex, fState) ==
    IF fMutex # Null
    THEN LET other == CHOOSE x \in Locks : x # fMutex
             r == Restore(s, t, other, fState)
         IN [blocked |-> r.blocked, mtx |-> r.mtx, fMutex |-> fMutex,
             fState |-> NullState, ret |-> 0,
             calls |-> <<Call("Restore", other, fState)>>]
    ELSE [blocked |-> FALSE, mtx |-> s, fMutex |-> fMutex,
          fState |-> fState, ret |-> 0, calls |-> <<>>]

\* ~TLockSuspend() { if (fMutex) fMutex->Restore(std::move(fState)); }
TLockSuspend_dtor(s, t, fMutex, fState) ==
    IF fMutex # Null
    THEN LET r == Restore(s, t, fMutex, fState)
         IN [blocked |-> r.blocked, mtx |-> r.mtx, fMutex |-> fMutex,
             fState |-> NullState, ret |-> 0,
             calls |-> <<Call("Restore", fMutex, fState)>>]
    ELSE [blocked |-> FALSE, mtx |-> s, fMutex |-> fMutex,
          fState |-> fState, ret |-> 0, calls |-> <<>>]

-----------------------------------------------------------------------------
(* Client threads.  A frame is a raw hold (a lock() the thread still has   *)
(* to match with unlock()), a TLockGuard or a TLockSuspend.  Frames close  *)
(* innermost first.  Besides the object's fields a frame keeps a record of *)
(* its history: the pointer it was constructed with (ctor), whether        *)
(* UnLock() was called on it (released), how many unlock() calls it has    *)
(* issued (unlocks) and the lock's state before its construction (pre).   *)

Frame(kind, fMutex, fState, ctor, released, unlocks, pre) ==
    [kind |-> kind, fMutex |-> fMutex, fState |-> fState, ctor |-> ctor,
     released |-> released, unlocks |-> unlocks, pre |-> pre]

NoFrame == Frame("none", Null, NullState, Null, FALSE, 0, Unlocked)

RawFrame(m) == Frame("raw", m, NullState, m, FALSE, 0, Unlocked)

Top(t) == stack[t][Len(stack[t])]

Pop(q) == SubSeq(q, 1, Len(q) - 1)

\* The locks the calls in cs were made on.
CalledOn(cs) == {cs[i].m : i \in 1..Len(cs)}

\* The number of calls of operation op in cs.
CountOp(cs, op) == Cardinality({i \in 1..Len(cs) : cs[i].op = op})


\* No TLockSuspend of thread t on lock m is open above frame i: a hold taken
\* by frame i is still in force.
InForce(t, i, m) ==
    \A j \in (i + 1)..Len(stack[t]) :
        ~(stack[t][j].kind = "suspend" /\ stack[t][j].ctor = m)


\* Thread A nests frames up to the bound; a contending thread opens one frame
\* at a time.
StackBound(t) ==
    IF t = "A"
    THEN (IF used = Locks THEN MaxStack - 1 ELSE MaxStack)
    ELSE 1

\* What a client can pass to a guard: a lock it works on, or a null pointer.
MutexArgs == used \cup {Null}

\* The record of a completed operation: obj is the frame it worked on, as the
\* operation left it; before is the lock map it started from.
Event(op, t, ret, calls, obj) ==
    [op |-> op, t |-> t, ret |-> ret, calls |-> calls, obj |-> obj,
     before |-> mtx]

\* The globals when no macro is in play.
NoGlob == [gGlobalMutex |-> Null, mutex |-> Null, imt |-> FALSE, made |-> 0]

\* The explored depths: a step that would take a lock deeper than MaxStack
\* is not taken.  Holds that match their frames never reach the limit (a
\* thread has at most MaxStack frames); only depth left over by an unmatched
\* unlock() does.
Bounded(s) == \A m \in Locks : s[m].count <= MaxStack

\* A thread that runs no fixed program: it calls the operations in any order.
Idle ==
    [at |-> "idle", macro |-> "none", seen |-> Null, entered |-> FALSE,
     arg |-> Null, held |-> 0, rounds |-> 0]

NoEvent ==
    [op |-> "Init", t |-> NoThread, ret |-> 0, calls |-> <<>>,
     obj |-> NoFrame, before |-> [m \in Locks |-> Unlocked]]

\* Normal operation: no lock() ever reports an error.
Init ==
    /\ used \in {{"M1"}, Locks}
    /\ mtx = [m \in Locks |-> Unlocked]
    /\ stack = [t \in Threads |-> <<>>]
    /\ unwinding = [t \in Threads |-> FALSE]
    /\ last = NoEvent
    /\ detect = {}
    /\ glob = NoGlob
    /\ misused = {}
    /\ pc = [t \in Threads |-> Idle]

\* mutex->Acquire(); the thread now owes one Release().
RawLock(t, m) ==
    LET r == Acquire(mtx, t, m)
        cs == <<Call("Lock", m, NullState)>>
    IN /\ ~unwinding[t]
       /\ Len(stack[t]) < StackBound(t)
       /\ ~r.blocked
       /\ Bounded(r.mtx)
       /\ mtx' = r.mtx
       /\ stack' = [stack EXCEPT ![t] = Append(@, RawFrame(m))]
       /\ last' = Event("Lock", t, r.ret, cs, RawFrame(m))
       /\ UNCHANGED <<used, unwinding, env>>

\* if (mutex->TryLock() == 0) { ... the thread owes one Release() ... }
RawTryLock(t, m) ==
    LET r == TryLock(mtx, t, m)
        cs == <<Call("TryLock", m, NullState)>>
    IN /\ ~unwinding[t]
       /\ Len(stack[t]) < StackBound(t)
       /\ Bounded(r.mtx)
       /\ mtx' = r.mtx
       /\ stack' = [stack EXCEPT
                      ![t] = IF r.ret = 0 THEN Append(@, RawFrame(m)) ELSE @]
       /\ last' = Event("TryLock", t, r.ret, cs, RawFrame(m))
       /\ UNCHANGED <<used, unwinding, env>>

\* mutex->Release(), matching the innermost raw hold.
RawUnLock(t) ==
    /\ ~unwinding[t]
    /\ stack[t] # <<>>
    /\ Top(t).kind = "raw"
    /\ LET m == Top(t).fMutex
           r == Release(mtx, t, m)
           cs == <<Call("UnLock", m, NullState)>>
       IN /\ mtx' = r.mtx
          /\ stack' = [stack EXCEPT ![t] = Pop(@)]
          /\ last' = Event("UnLock", t, r.ret, cs, Top(t))
    /\ UNCHANGED <<used, unwinding, env>>

\* { TLockGuard guard(mutex); ...
GuardCtor(t, mutex) ==
    LET r == TLockGuard_ctor(mtx, t, mutex)
        pre == IF mutex # Null THEN mtx[mutex] ELSE Unlocked
        f == Frame("guard", r.fMutex, NullState, mutex, FALSE, 0, pre)
    IN /\ ~unwinding[t]
       /\ Len(stack[t]) < StackBound(t)
       /\ ~r.blocked
       /\ Bounded(r.mtx)
       /\ mtx' = r.mtx
       /\ stack' = [stack EXCEPT ![t] = Append(@, f)]
       /\ last' = Event("GuardCtor", t, r.ret, r.calls, f)
       /\ UNCHANGED <<used, unwinding, env>>

\* guard.UnLock() on any open guard of the thread.  The call is issued
\* whatever the thread holds: when a TLockSuspend of the thread on the same
\* lock is open above the guard, the guard's hold is suspended and the
\* unlock() has no hold of the guard to match.
GuardUnLock(t, i) ==
    /\ ~unwinding[t]
    /\ i \in 1..Len(stack[t])
    /\ stack[t][i].kind = "guard"
    /\ LET g == stack[t][i]
           r == TLockGuard_UnLock(mtx, t, g.fMutex)
           f == [g EXCEPT !.fMutex = r.fMutex, !.released = (g.ctor # Null),
                          !.unlocks = @ + CountOp(r.calls, "UnLock")]
       IN /\ mtx' = r.mtx
          /\ stack' = [stack EXCEPT ![t][i] = f]
          /\ last' = Event("GuardUnLock", t, r.ret, r.calls, f)
          /\ misused' = IF r.calls # <<>> /\ ~InForce(t, i, g.ctor)
                        THEN misused \cup {t} ELSE misused
    /\ UNCHANGED <<used, unwinding, detect, glob, pc>>

\* ... } the innermost guard goes out of scope, on any exit path.
GuardDtor(t) ==
    /\ stack[t] # <<>>
    /\ Top(t).kind = "guard"
    /\ LET g == Top(t)
           r == TLockGuard_dtor(mtx, t, g.fMutex)
           f == [g EXCEPT !.unlocks = @ + CountOp(r.calls, "UnLock")]
       IN /\ mtx' = r.mtx
          /\ stack' = [stack EXCEPT ![t] = Pop(@)]
          /\ last' = Event("GuardDtor", t, r.ret, r.calls, f)
    /\ UNCHANGED <<used, unwinding, env>>

\* { ROOT::TLockSuspend guard(mutex); ...
SuspendCtor(t, mutex) ==
    LET r == TLockSuspend_ctor(mtx, t, mutex)
        pre == IF mutex # Null THEN mtx[mutex] ELSE Unlocked
        f == Frame("suspend", r.fMutex, r.fState, mutex, FALSE, 0, pre)
    IN /\ ~unwinding[t]
       /\ Len(stack[t]) < StackBound(t)
       /\ ~r.blocked
       /\ mtx' = r.mtx
       /\ stack' = [stack EXCEPT ![t] = Append(@, f)]
       /\ last' = Event("SuspendCtor", t, r.ret, r.calls, f)
       /\ UNCHANGED <<used, unwinding, env>>

\* ... } the innermost suspend guard goes out of scope, on any exit path.
SuspendDtor(t) ==
    /\ stack[t] # <<>>
    /\ Top(t).kind = "suspend"
    /\ LET g == Top(t)
           r == TLockSuspend_dtor(mtx, t, g.fMutex, g.fState)
           f == [g EXCEPT !.fState = r.fState]
       IN /\ ~r.blocked
          /\ Bounded(r.mtx)
          /\ mtx' = r.mtx
          /\ stack' = [stack EXCEPT ![t] = Pop(@)]
          /\ last' = Event("SuspendDtor", t, r.ret, r.calls, f)
    /\ UNCHANGED <<used, unwinding, env>>

\* An error is raised inside the innermost open scope.
Throw(t) ==
    /\ ~unwinding[t]
    /\ stack[t] # <<>>
    /\ Top(t).kind # "raw"
    /\ unwinding' = [unwinding EXCEPT ![t] = TRUE]
    /\ last' = Event("Throw", t, 0, <<>>, NoFrame)
    /\ UNCHANGED <<used, mtx, stack, env>>

\* A handler of an enclosing scope catches the error.
Catch(t) ==
    /\ unwinding[t]
    /\ unwinding' = [unwinding EXCEPT ![t] = FALSE]
    /\ last' = Event("Catch", t, 0, <<>>, NoFrame)
    /\ UNCHANGED <<used, mtx, stack, env>>

Next ==
    \/ \E t \in Threads, a \in MutexArgs : SuspendCtor(t, a)
    \/ \E t \in Threads : SuspendDtor(t)
    \/ \E t \in Threads, a \in MutexArgs : GuardCtor(t, a)
    \/ \E t \in Threads, i \in 1..MaxStack : GuardUnLock(t, i)
    \/ \E t \in Threads : GuardDtor(t)
    \/ \E t \in Threads, m \in used : RawLock(t, m)
    \/ \E t \in Threads, m \in used : RawTryLock(t, m)
    \/ \E t \in Threads : RawUnLock(t)
    \/ \E t \in Threads : Throw(t)
    \/ \E t \in Threads : Catch(t)

Spec == Init /\ [][Next]_vars

\* Clients that work on one lock with TLockGuards and raw holds, over a
\* backend with deadlock detection.
InitErr ==
    /\ used = {"M1"}
    /\ mtx = [m \in Locks |-> Unlocked]
    /\ stack = [t \in Threads |-> <<>>]
    /\ unwinding = [t \in Threads |-> FALSE]
    /\ last = NoEvent
    /\ detect = used
    /\ glob = NoGlob
    /\ misused = {}
    /\ pc = [t \in Threads |-> Idle]

NextErr ==
    \/ \E t \in Threads, a \in MutexArgs : GuardCtor(t, a)
    \/ \E t \in Threads, i \in 1..MaxStack : GuardUnLock(t, i)
    \/ \E t \in Threads : GuardDtor(t)
    \/ \E t \in Threads, m \in used : RawLock(t, m)
    \/ \E t \in Threads : RawUnLock(t)

SpecErr == InitErr /\ [][NextErr]_vars

-----------------------------------------------------------------------------
(* The locking macros, lines 147-173, in a build with thread support and   *)
(* with R__USE_IMT.  Each thread runs one macro inside a scope:            *)
(*     { MACRO(mutex); ... the statements that follow ... }                *)
(* `mutex` is a pointer variable the threads share; pc[t] keeps the macro  *)
(* thread t runs (macro), the statement it is at (at), the value of        *)
(* `mutex` it has read (seen), whether it went through the block guarded   *)
(* by gGlobalMutex (entered), the pointer its guard was built with (arg)   *)
(* and its hold depth on gGlobalMutex when it reached the macro (held).    *)

Macros == {"LOCKGUARD", "LOCKGUARD2", "IMT", "IMT2"}

\* The lock gGlobalMutex points to when the thread library is loaded.
GlobalLock == "M1"

\* gGlobalMutex->Factory(kTRUE): a new recursive lock, the one after the
\* `made` locks created so far (the model has one lock to create; a further
\* call yields it again).
Factory(made) == "M2"

\* ROOT::Internal::IsParBranchProcessingEnabled()
IsParBranchProcessingEnabled == glob.imt

\* A bug of R__LOCKGUARD2: mutex is not tested again under gGlobalMutex.
LOCKGUARD2_Create_NoRecheck(g, mutex, made) ==
    [mutex |-> Factory(made), made |-> made + 1,
     calls |-> <<Call("Factory", g, NullState)>>]

\* if (!mutex) mutex = gGlobalMutex->Factory(kTRUE);
LOCKGUARD2_Create(g, mutex, made) ==
    IF mutex = Null
    THEN [mutex |-> Factory(made), made |-> made + 1,
          calls |-> <<Call("Factory", g, NullState)>>]
    ELSE [mutex |-> mutex, made |-> made, calls |-> <<>>]

\* What a read of `mutex` outside gGlobalMutex can yield for thread t: the
\* read races with the assignment another thread makes in R__LOCKGUARD2, so
\* a thread that has not yet seen the assigned pointer may still read null.
ReadMutex(t) ==
    IF pc[t].entered \/ pc[t].seen # Null \/ glob.made = 0
    THEN {glob.mutex}
    ELSE {glob.mutex, Null}

At(t, macros, at) == pc[t].macro \in macros /\ pc[t].at = at

Goto(t, at) == pc' = [pc EXCEPT ![t].at = at]

\* The statement a macro starts with.
FirstStatement(k) ==
    CASE k = "LOCKGUARD" -> "guard"
      [] k = "LOCKGUARD2" -> "test"
      [] OTHER -> "switch"

\* Thread h holds gGlobalMutex when the threads reach their macros
\* (NoThread: nobody does).
InitMacro ==
    \E g \in {Null, GlobalLock}, p \in {Null, Factory(0)}, e \in BOOLEAN,
       h \in Threads \cup {NoThread} :
        /\ h # NoThread => g # Null
        /\ used = Locks
        /\ mtx = [m \in Locks |->
                    IF m = g /\ h # NoThread
                    THEN [owner |-> h, count |-> 1] ELSE Unlocked]
        /\ stack = [t \in Threads |->
                      IF t = h THEN <<RawFrame(g)>> ELSE <<>>]
        /\ unwinding = [t \in Threads |-> FALSE]
        /\ last = NoEvent
        /\ detect = {}
        /\ misused = {}
        /\ glob = [gGlobalMutex |-> g, mutex |-> p, imt |-> e, made |-> 0]
        /\ \E k \in [Threads -> Macros] :
              pc = [t \in Threads |->
                      [at |-> FirstStatement(k[t]), macro |-> k[t],
                       seen |-> Null, entered |-> FALSE, arg |-> Null,
                       held |-> IF t = h THEN 1 ELSE 0, rounds |-> 0]]

\* if (ROOT::Internal::IsParBranchProcessingEnabled()) ...
\* The if governs the one statement that follows it: the guard declaration of
\* R__LOCKGUARD_IMT, the if statement R__LOCKGUARD_IMT2 starts with.
M_Switch(t) ==
    /\ At(t, {"IMT", "IMT2"}, "switch")
    /\ Goto(t, IF pc[t].macro = "IMT"
               THEN (IF IsParBranchProcessingEnabled
                     THEN "ifguard" ELSE "body")
               ELSE (IF IsParBranchProcessingEnabled
                     THEN "test" ELSE "guard"))
    /\ last' = Event("Switch", t, 0, <<>>, NoFrame)
    /\ UNCHANGED <<used, mtx, stack, unwinding, detect, glob,
                   misused>>

\* if (gGlobalMutex && !mutex) {
M_Test(t) ==
    /\ At(t, {"LOCKGUARD2", "IMT2"}, "test")
    /\ \E p \in ReadMutex(t) :
          pc' = [pc EXCEPT
                   ![t].seen = p,
                   ![t].at = IF glob.gGlobalMutex # Null /\ p = Null
                             THEN "lock" ELSE "guard"]
    /\ last' = Event("Test", t, 0, <<>>, NoFrame)
    /\ UNCHANGED <<used, mtx, stack, unwinding, detect, glob,
                   misused>>

\* gGlobalMutex->Lock();
M_Lock(t) ==
    /\ At(t, {"LOCKGUARD2", "IMT2"}, "lock")
    /\ LET g == glob.gGlobalMutex
           r == Lock(mtx, t, g)
       IN /\ ~r.blocked
          /\ mtx' = r.mtx
          /\ stack' = [stack EXCEPT ![t] = Append(@, RawFrame(g))]
          /\ last' = Event("Lock", t, r.ret,
                           <<Call("Lock", g, NullState)>>, RawFrame(g))
    /\ pc' = [pc EXCEPT ![t].at = "create", ![t].entered = TRUE]
    /\ UNCHANGED <<used, unwinding, detect, glob, misused>>

\* if (!mutex) mutex = gGlobalMutex->Factory(kTRUE);
M_Create(t) ==
    /\ At(t, {"LOCKGUARD2", "IMT2"}, "create")
    /\ LET r == LOCKGUARD2_Create(glob.gGlobalMutex, glob.mutex, glob.made)
       IN /\ glob' = [glob EXCEPT !.mutex = r.mutex, !.made = r.made]
          /\ last' = Event("Create", t, 0, r.calls, NoFrame)
          /\ pc' = [pc EXCEPT ![t].at = "unlock", ![t].seen = r.mutex]
    /\ UNCHANGED <<used, mtx, stack, unwinding, detect, misused>>

\* gGlobalMutex->UnLock(); }
M_UnLock(t) ==
    /\ At(t, {"LOCKGUARD2", "IMT2"}, "unlock")
    /\ LET g == glob.gGlobalMutex
           r == UnLock(mtx, t, g)
       IN /\ mtx' = r.mtx
          /\ stack' = [stack EXCEPT ![t] = Pop(@)]
          /\ last' = Event("UnLock", t, r.ret,
                           <<Call("UnLock", g, NullState)>>, Top(t))
    /\ Goto(t, "guard")
    /\ UNCHANGED <<used, unwinding, detect, glob, misused>>

\* R__LOCKGUARD(mutex): TLockGuard _R__UNIQUE_(R__guard)(mutex), a
\* declaration in the scope the macro is used in.
M_Guard(t) ==
    /\ At(t, {"LOCKGUARD", "LOCKGUARD2", "IMT2"}, "guard")
    /\ \E p \in ReadMutex(t) :
          LET r == TLockGuard_ctor(mtx, t, p)
              pre == IF p # Null THEN mtx[p] ELSE Unlocked
              f == Frame("guard", r.fMutex, NullState, p, FALSE, 0, pre)
          IN /\ ~r.blocked
             /\ mtx' = r.mtx
             /\ stack' = [stack EXCEPT ![t] = Append(@, f)]
             /\ last' = Event("GuardCtor", t, r.ret, r.calls, f)
             /\ pc' = [pc EXCEPT ![t].at = "body", ![t].seen = p,
                                 ![t].arg = p]
    /\ UNCHANGED <<used, unwinding, detect, glob, misused>>

\* if (...) TLockGuard _R__UNIQUE_(R__guard)(mutex): the declaration is the
\* statement the if governs.
M_IfGuard(t) ==
    /\ At(t, {"IMT"}, "ifguard")
    /\ \E p \in ReadMutex(t) :
          LET r == TLockGuard_ctor(mtx, t, p)
              pre == IF p # Null THEN mtx[p] ELSE Unlocked
              f == Frame("guard", r.fMutex, NullState, p, FALSE, 0, pre)
          IN /\ ~r.blocked
             /\ mtx' = r.mtx
             /\ stack' = [stack EXCEPT ![t] = Append(@, f)]
             /\ last' = Event("GuardCtor", t, r.ret, r.calls, f)
             /\ pc' = [pc EXCEPT ![t].at = "ifend", ![t].seen = p,
                                 ![t].arg = p]
    /\ UNCHANGED <<used, unwinding, detect, glob, misused>>

\* The if statement ends, and with it the life of the guard declared in it.
M_IfEnd(t) ==
    /\ At(t, {"IMT"}, "ifend")
    /\ LET g == Top(t)
           r == TLockGuard_dtor(mtx, t, g.fMutex)
           f == [g EXCEPT !.unlocks = @ + CountOp(r.calls, "UnLock")]
       IN /\ mtx' = r.mtx
          /\ stack' = [stack EXCEPT ![t] = Pop(@)]
          /\ last' = Event("GuardDtor", t, r.ret, r.calls, f)
    /\ Goto(t, "body")
    /\ UNCHANGED <<used, unwinding, detect, glob, misused>>

\* The statements that follow the macro are done and the scope ends: a
\* guard declared in the scope is destroyed.
M_ScopeEnd(t) ==
    /\ At(t, Macros, "body")
    /\ IF stack[t] # <<>> /\ Top(t).kind = "guard"
       THEN LET g == Top(t)
                r == TLockGuard_dtor(mtx, t, g.fMutex)
                f == [g EXCEPT !.unlocks = @ + CountOp(r.calls, "UnLock")]
            IN /\ mtx' = r.mtx
               /\ stack' = [stack EXCEPT ![t] = Pop(@)]
               /\ last' = Event("GuardDtor", t, r.ret, r.calls, f)
       ELSE /\ last' = Event("ScopeEnd", t, 0, <<>>, NoFrame)
            /\ UNCHANGED <<mtx, stack>>
    /\ Goto(t, "done")
    /\ UNCHANGED <<used, unwinding, detect, glob, misused>>

\* A thread that held gGlobalMutex around its macro releases it.
M_Release(t) ==
    /\ At(t, Macros, "done")
    /\ stack[t] # <<>>
    /\ LET g == Top(t).fMutex
           r == Release(mtx, t, g)
       IN /\ mtx' = r.mtx
          /\ stack' = [stack EXCEPT ![t] = Pop(@)]
          /\ last' = Event("Release", t, r.ret,
                           <<Call("UnLock", g, NullState)>>, Top(t))
    /\ UNCHANGED <<used, unwinding, env>>

NextMacro ==
    \/ \E t \in Threads : M_Switch(t)
    \/ \E t \in Threads : M_Test(t)
    \/ \E t \in Threads : M_Lock(t)
    \/ \E t \in Threads : M_Create(t)
    \/ \E t \in Threads : M_UnLock(t)
    \/ \E t \in Threads : M_Guard(t)
    \/ \E t \in Threads : M_IfGuard(t)
    \/ \E t \in Threads : M_IfEnd(t)
    \/ \E t \in Threads : M_ScopeEnd(t)
    \/ \E t \in Threads : M_Release(t)

SpecMacro == InitMacro /\ [][NextMacro]_vars

-----------------------------------------------------------------------------
(* Suspension with a contending thread.  The waiter takes lock M1 to some  *)
(* depth, opens a TLockSuspend on it and closes it again; in mode "await"  *)
(* it stays inside the scope until the worker has completed a section, in  *)
(* mode "resume" it leaves the scope whenever it gets there.  The worker   *)
(* runs MaxRounds sections, each a blocking Acquire() of M1 followed by    *)
(* Release().  pc[t].rounds counts the sections thread t has completed.    *)

\* The sections the worker runs.
MaxRounds == 2

Waiter == "A"
Worker == "B"

InitSuspend ==
    /\ used = {"M1"}
    /\ mtx = [m \in Locks |-> Unlocked]
    /\ stack = [t \in Threads |-> <<>>]
    /\ unwinding = [t \in Threads |-> FALSE]
    /\ last = NoEvent
    /\ detect = {}
    /\ glob = NoGlob
    /\ misused = {}
    /\ \E mode \in {"await", "resume"} :
          pc = [t \in Threads |->
                  IF t = Waiter
                  THEN [Idle EXCEPT !.at = "hold", !.macro = mode]
                  ELSE [Idle EXCEPT !.at = "begin", !.macro = "worker"]]

\* The waiter takes the lock once more: mutex->Acquire().
W_Acquire(t) ==
    /\ t = Waiter
    /\ pc[t].at = "hold"
    /\ Len(stack[t]) < MaxStack - 1
    /\ LET r == Acquire(mtx, t, "M1")
       IN /\ ~r.blocked
          /\ mtx' = r.mtx
          /\ stack' = [stack EXCEPT ![t] = Append(@, RawFrame("M1"))]
          /\ last' = Event("Lock", t, r.ret,
                           <<Call("Lock", "M1", NullState)>>, RawFrame("M1"))
    /\ UNCHANGED <<used, unwinding, env>>

\* The waiter takes the lock once more: { TLockGuard guard(mutex); ...
W_Guard(t) ==
    /\ t = Waiter
    /\ pc[t].at = "hold"
    /\ Len(stack[t]) < MaxStack - 1
    /\ LET r == TLockGuard_ctor(mtx, t, "M1")
           f == Frame("guard", r.fMutex, NullState, "M1", FALSE, 0, mtx["M1"])
       IN /\ ~r.blocked
          /\ mtx' = r.mtx
          /\ stack' = [stack EXCEPT ![t] = Append(@, f)]
          /\ last' = Event("GuardCtor", t, r.ret, r.calls, f)
    /\ UNCHANGED <<used, unwinding, env>>

\* { ROOT::TLockSuspend guard(mutex); ... by the waiter, holding the lock.
W_Suspend(t) ==
    /\ t = Waiter
    /\ pc[t].at = "hold"
    /\ HoldDepth(t, "M1") >= 1
    /\ LET r == TLockSuspend_ctor(mtx, t, "M1")
           f == Frame("suspend", r.fMutex, r.fState, "M1", FALSE, 0,
                      mtx["M1"])
       IN /\ ~r.blocked
          /\ mtx' = r.mtx
          /\ stack' = [stack EXCEPT ![t] = Append(@, f)]
          /\ last' = Event("SuspendCtor", t, r.ret, r.calls, f)
    /\ pc' = [pc EXCEPT ![t].at = "wait", ![t].held = HoldDepth(t, "M1")]
    /\ UNCHANGED <<used, unwinding, detect, glob, misused>>

\* ... } the TLockSuspend goes out of scope; in mode "await" only after the
\* worker has completed a section.
W_Resume(t) ==
    /\ t = Waiter
    /\ pc[t].at = "wait"
    /\ pc[t].macro = "await" => pc[Worker].rounds >= 1
    /\ LET g == Top(t)
           r == TLockSuspend_dtor(mtx, t, g.fMutex, g.fState)
           f == [g EXCEPT !.fState = r.fState]
       IN /\ ~r.blocked
          /\ mtx' = r.mtx
          /\ stack' = [stack EXCEPT ![t] = Pop(@)]
          /\ last' = Event("SuspendDtor", t, r.ret, r.calls, f)
    /\ Goto(t, "done")
    /\ UNCHANGED <<used, unwinding, detect, glob, misused>>

\* The waiter closes the holds it opened before the TLockSuspend, innermost
\* first.
W_Close(t) ==
    /\ t = Waiter
    /\ pc[t].at = "done"
    /\ stack[t] # <<>>
    /\ LET g == Top(t)
           r == IF g.kind = "raw" THEN Release(mtx, t, g.fMutex)
                ELSE TLockGuard_dtor(mtx, t, g.fMutex)
           cs == IF g.kind = "raw"
                 THEN <<Call("UnLock", g.fMutex, NullState)>>
                 ELSE r.calls
           f == IF g.kind = "raw" THEN g
                ELSE [g EXCEPT !.unlocks = @ + CountOp(r.calls, "UnLock")]
       IN /\ mtx' = r.mtx
          /\ stack' = [stack EXCEPT ![t] = Pop(@)]
          /\ last' = Event(IF g.kind = "raw" THEN "UnLock" ELSE "GuardDtor",
                           t, r.ret, cs, f)
    /\ UNCHANGED <<used, unwinding, env>>

\* The worker enters a section: mutex->Acquire(), which waits for the lock.
W_Enter(t) ==
    /\ t = Worker
    /\ pc[t].at = "begin"
    /\ pc[t].rounds < MaxRounds
    /\ LET r == Acquire(mtx, t, "M1")
       IN /\ ~r.blocked
          /\ mtx' = r.mtx
          /\ stack' = [stack EXCEPT ![t] = Append(@, RawFrame("M1"))]
          /\ last' = Event("Lock", t, r.ret,
                           <<Call("Lock", "M1", NullState)>>, RawFrame("M1"))
    /\ Goto(t, "section")
    /\ UNCHANGED <<used, unwinding, detect, glob, misused>>

\* The worker leaves its section: mutex->Release().
W_Leave(t) ==
    /\ t = Worker
    /\ pc[t].at = "section"
    /\ LET r == Release(mtx, t, "M1")
       IN /\ mtx' = r.mtx
          /\ stack' = [stack EXCEPT ![t] = Pop(@)]
          /\ last' = Event("UnLock", t, r.ret,
                           <<Call("UnLock", "M1", NullState)>>, Top(t))
    /\ pc' = [pc EXCEPT ![t].at = "begin", ![t].rounds = @ + 1]
    /\ UNCHANGED <<used, unwinding, detect, glob, misused>>

NextSuspend ==
    \/ \E t \in Threads : W_Acquire(t)
    \/ \E t \in Threads : W_Guard(t)
    \/ \E t \in Threads : W_Suspend(t)
    \/ \E t \in Threads : W_Resume(t)
    \/ \E t \in Threads : W_Close(t)
    \/ \E t \in Threads : W_Enter(t)
    \/ \E t \in Threads : W_Leave(t)

\* Each thread that can take a step of its program eventually takes one: the
\* threads are native threads and none is suspended for good.
Fairness ==
    /\ WF_vars(\E t \in {Waiter} : W_Acquire(t) \/ W_Guard(t) \/ W_Suspend(t)
                                   \/ W_Resume(t) \/ W_Close(t))
    /\ WF_vars(\E t \in {Worker} : W_Enter(t) \/ W_Leave(t))

SpecSuspend == InitSuspend /\ [][NextSuspend]_vars /\ Fairness

-----------------------------------------------------------------------------
(* What a thread holds by the calls it has completed.                      *)

\* The lock the completed operation was called on (Null when it issued no
\* call).
LastLock == IF last.calls = <<>> THEN Null ELSE last.calls[1].m

\* Thread t has no TLockSuspend open on lock m: on m it has only issued
\* lock(), try_lock() and unlock().
LockOnly(t, m) ==
    \A i \in 1..Len(stack[t]) :
        ~(stack[t][i].kind = "suspend" /\ stack[t][i].ctor = m)

\* The lock() calls minus the unlock() calls that the open frames of thread t
\* have issued on lock m: one lock() per raw hold, one lock() per guard built
\* on m less the unlock() calls the guard has issued.
CallsNet(t, m) ==
    LET gain(f) == IF f.kind = "raw" /\ f.fMutex = m THEN 1
                   ELSE IF f.kind = "guard" /\ f.ctor = m THEN 1 - f.unlocks
                   ELSE 0
        sum[i \in 0..Len(stack[t])] ==
            IF i = 0 THEN 0 ELSE sum[i - 1] + gain(stack[t][i])
    IN sum[Len(stack[t])]

\* The depth thread t is entitled to on lock m: the raw holds and the guards
\* built on m and not released by UnLock(), opened since the innermost
\* TLockSuspend on m.
Expected(t, m) ==
    Cardinality({i \in 1..Len(stack[t]) :
        /\ InForce(t, i, m)
        /\ \/ stack[t][i].kind = "raw" /\ stack[t][i].fMutex = m
           \/ stack[t][i].kind = "guard" /\ stack[t][i].ctor = m
                                         /\ ~stack[t][i].released})

\* Every unlock() thread t has issued through a TLockGuard had a hold of that
\* guard to match: t never called UnLock() on a guard whose hold a
\* TLockSuspend of t had suspended.
Matched(t) == t \notin misused

\* The hold depth of thread t in lock state x.
DepthOf(x, t) == IF x.owner = t THEN x.count ELSE 0

-----------------------------------------------------------------------------
\* C1: mutual exclusion.  In every reachable state, for every lock, at most
\* one thread has a hold depth greater than 0; and among the threads whose
\* unlock() calls all had a hold to match, at most one is entitled to a hold
\* depth greater than 0 by the lock(), try_lock(), unlock(), reset() and
\* restore() calls it has completed, raw or through guards, and that thread
\* holds the lock.
C1_MutualExclusion ==
    \A m \in Locks :
        /\ Cardinality({t \in Threads : HoldDepth(t, m) > 0}) <= 1
        /\ Cardinality({t \in Threads :
                            Matched(t) /\ Expected(t, m) > 0}) <= 1
        /\ \A t \in Threads :
              (Matched(t) /\ Expected(t, m) > 0) => HoldDepth(t, m) > 0

\* C1 witness: thread B holds the lock through a TLockGuard and thread A has
\* just been refused by try_lock().
C1_Witness ==
    /\ misused = {}
    /\ last.op = "TryLock" /\ last.t = "A" /\ last.ret # 0
    /\ stack["B"] # <<>> /\ Top("B").kind = "guard"
    /\ Expected("B", LastLock) = 1

\* C2: for a thread that has only issued lock() and unlock() on a lock, each
\* unlock() matched by an earlier lock(), the hold depth equals the number of
\* lock() calls minus the number of unlock() calls, and a try_lock() by
\* another thread fails exactly when that depth is greater than 0.
C2_DepthIsLocksMinusUnlocks ==
    /\ \A t \in Threads, m \in Locks :
          (Matched(t) /\ LockOnly(t, m)) => HoldDepth(t, m) = CallsNet(t, m)
    /\ last.op = "TryLock" =>
          \A u \in Threads \ {last.t} :
              (Matched(u) /\ LockOnly(u, LastLock)) =>
                  ((last.ret # 0) <=> (CallsNet(u, LastLock) > 0))

\* C2 witness: thread A has two lock() calls outstanding, both raw, and the
\* try_lock() of thread B has just failed.
C2_Witness ==
    /\ Matched("A")
    /\ last.op = "TryLock" /\ last.t = "B" /\ last.ret # 0
    /\ Len(stack["A"]) = 2
    /\ \A i \in 1..2 : stack["A"][i].kind = "raw"
    /\ CallsNet("A", LastLock) = 2

\* C3: a TLockGuard built on a non-null lock holds the lock on entry to its
\* scope and keeps it while its hold is in force and the thread issues no
\* unmatched unlock(); it issues unlock() exactly once over its life, at the
\* first UnLock() or else at destruction, and issues nothing on the lock
\* after that.
C3_GuardUnlocksOnce ==
    /\ (last.op = "GuardCtor" /\ last.obj.ctor # Null) =>
          /\ last.calls = <<Call("Lock", last.obj.ctor, NullState)>>
          /\ HoldDepth(last.t, last.obj.ctor) >= 1
    /\ \A t \in Threads : \A i \in 1..Len(stack[t]) :
          (stack[t][i].kind = "guard" /\ stack[t][i].ctor # Null) =>
              /\ stack[t][i].unlocks = (IF stack[t][i].released THEN 1 ELSE 0)
              /\ (/\ Matched(t)
                  /\ ~stack[t][i].released
                  /\ InForce(t, i, stack[t][i].ctor))
                    => HoldDepth(t, stack[t][i].ctor) >= 1
    /\ (last.op \in {"GuardUnLock", "GuardDtor"} /\ last.obj.ctor # Null) =>
          /\ last.obj.unlocks = 1
          /\ \A i \in 1..Len(last.calls) :
                last.calls[i] = Call("UnLock", last.obj.ctor, NullState)
          /\ (last.op = "GuardDtor" /\ last.obj.released) => last.calls = <<>>
          /\ (last.op = "GuardDtor" /\ ~last.obj.released) => Len(last.calls) = 1

\* C3 witness: a guard on a lock was released by UnLock() and has now been
\* destroyed; the destructor issued nothing.
C3_Witness ==
    /\ Matched(last.t)
    /\ last.op = "GuardDtor"
    /\ last.obj.ctor # Null
    /\ last.obj.released
    /\ last.obj.unlocks = 1
    /\ last.calls = <<>>

\* C4: when an error propagates out of the scope of a TLockGuard built on a
\* non-null lock, the guard has unlocked the lock exactly once when control
\* has left the scope, and a thread whose unlock() calls all had a hold to
\* match is left with the holds of the enclosing frames, as on a normal exit.
C4_UnwindUnlocksOnce ==
    (last.op = "GuardDtor" /\ unwinding[last.t] /\ last.obj.ctor # Null) =>
        /\ last.obj.unlocks = 1
        /\ Matched(last.t) =>
              /\ HoldDepth(last.t, last.obj.ctor)
                    = Expected(last.t, last.obj.ctor)
              /\ ~last.obj.released =>
                    HoldDepth(last.t, last.obj.ctor)
                        = DepthOf(last.before[last.obj.ctor], last.t) - 1

\* C4 witness: an error was raised in the scope of a guard that still held
\* its lock; the guard has been destroyed by the unwinding and the lock is
\* free.
C4_Witness ==
    /\ Matched(last.t)
    /\ last.op = "GuardDtor" /\ unwinding[last.t]
    /\ last.obj.ctor # Null /\ ~last.obj.released
    /\ last.calls # <<>>
    /\ stack[last.t] = <<>>
    /\ mtx[last.obj.ctor] = Unlocked

\* The lock state reset() by thread t leaves, from lock state x.
AfterReset(x, t) == IF x.owner = t THEN Unlocked ELSE x

\* Thread t has a TLockSuspend on lock m as its innermost frame.
InSuspendScope(t, m) ==
    /\ stack[t] # <<>>
    /\ Top(t).kind = "suspend"
    /\ Top(t).ctor = m

\* C5, as stated: the lock's hold depth is 0 in every state between the
\* construction and the destruction of a TLockSuspend built on it.
C5_Original ==
    \A t \in Threads : \A i \in 1..Len(stack[t]) :
        (stack[t][i].kind = "suspend" /\ stack[t][i].ctor # Null) =>
            mtx[stack[t][i].ctor].count = 0

\* C5, amended: during the scope of a TLockSuspend built on a non-null lock
\* a constructing thread whose unlock() calls all had a hold to match holds
\* the lock only to the depth of the holds it has itself opened inside the
\* scope, 0 when it has opened none, while other threads may take the lock;
\* the destruction restores for such a thread the depth it had before the
\* construction, and it changes the depth of no other thread.
C5_SuspendScope ==
    /\ \A t \in Threads : \A i \in 1..Len(stack[t]) :
          (/\ stack[t][i].kind = "suspend"
           /\ stack[t][i].ctor # Null
           /\ Matched(t)) =>
              /\ HoldDepth(t, stack[t][i].ctor) = Expected(t, stack[t][i].ctor)
              /\ i = Len(stack[t]) => HoldDepth(t, stack[t][i].ctor) = 0
    /\ (last.op = "SuspendDtor" /\ last.obj.ctor # Null) =>
          /\ Matched(last.t) =>
                HoldDepth(last.t, last.obj.ctor) = DepthOf(last.obj.pre, last.t)
          /\ \A u \in Threads \ {last.t} :
                HoldDepth(u, last.obj.ctor)
                    = DepthOf(last.before[last.obj.ctor], u)

\* C5 witness: thread A, which held the lock at depth 2, is inside its
\* TLockSuspend and thread B holds the lock.
C5_Witness ==
    \E m \in Locks :
        /\ Matched("A")
        /\ InSuspendScope("A", m)
        /\ Top("A").pre = [owner |-> "A", count |-> 2]
        /\ HoldDepth("A", m) = 0
        /\ HoldDepth("B", m) = 1

\* C6: when thread A, whose unlock() calls all had a hold to match, holds
\* the lock at depth n >= 1 and builds a TLockSuspend on it, the depth
\* becomes 0 and a try_lock() by thread B succeeds; when the guard has been
\* destroyed A holds the lock at depth n again and a try_lock() by B fails.
C6_SuspendScenario ==
    /\ \A a \in Threads, m \in Locks :
          (/\ InSuspendScope(a, m)
           /\ DepthOf(Top(a).pre, a) >= 1
           /\ Matched(a)) =>
              /\ HoldDepth(a, m) = 0
              /\ (last.op = "TryLock" /\ last.t # a /\ LastLock = m) =>
                    /\ last.ret = 0
                    /\ HoldDepth(last.t, m) >= 1
    /\ (last.op = "SuspendDtor" /\ last.obj.ctor # Null
           /\ DepthOf(last.obj.pre, last.t) >= 1
           /\ Matched(last.t)) =>
          /\ HoldDepth(last.t, last.obj.ctor) = last.obj.pre.count
          /\ \A b \in Threads \ {last.t} :
                TryLock(mtx, b, last.obj.ctor).ret # 0
    /\ (last.op = "TryLock" /\ last.ret = 0) =>
          \A a \in Threads \ {last.t} : HoldDepth(a, LastLock) = 0
    /\ (last.op = "TryLock" /\ last.ret # 0) =>
          \E a \in Threads \ {last.t} : HoldDepth(a, LastLock) >= 1

\* C6 witness: thread A held the lock at depth 2 and is inside its
\* TLockSuspend; the try_lock() of thread B has just succeeded.
C6_Witness ==
    /\ Matched("A")
    /\ last.op = "TryLock" /\ last.t = "B" /\ last.ret = 0
    /\ InSuspendScope("A", LastLock)
    /\ Top("A").pre = [owner |-> "A", count |-> 2]

\* C7: round trip.  When a TLockSuspend is destroyed with the lock as its
\* Reset left it, the lock is again in the state it had before the Reset:
\* the same depth, held by the same thread, whatever the depth, 0 included.
C7_RoundTrip ==
    (/\ last.op = "SuspendDtor"
     /\ last.obj.ctor # Null
     /\ last.before[last.obj.ctor] = AfterReset(last.obj.pre, last.t)) =>
        /\ mtx[last.obj.ctor] = last.obj.pre
        /\ \A m \in Locks \ {last.obj.ctor} : mtx[m] = last.before[m]

\* C7 witness: a TLockSuspend built at depth 2 has been destroyed with the
\* lock still free, and the depth is 2 again.
C7_Witness ==
    /\ last.op = "SuspendDtor"
    /\ last.obj.ctor # Null
    /\ last.obj.pre = [owner |-> last.t, count |-> 2]
    /\ last.before[last.obj.ctor] = Unlocked
    /\ mtx[last.obj.ctor] = last.obj.pre

C9_NullGuardNoOp ==
    (/\ last.op \in {"GuardCtor", "GuardUnLock", "GuardDtor",
                     "SuspendCtor", "SuspendDtor"}
     /\ last.obj.ctor = Null) =>
        /\ last.calls = <<>>
        /\ mtx = last.before
        /\ last.obj.fMutex = Null
        /\ last.obj.fState = NullState
        /\ last.op = "GuardUnLock" => last.ret = 0

\* C9 witness: UnLock() was called on a TLockGuard built with a null pointer
\* while the thread held a lock.
C9_Witness ==
    /\ last.op = "GuardUnLock"
    /\ last.obj.ctor = Null
    /\ last.ret = 0
    /\ \E m \in Locks : HoldDepth(last.t, m) = 1

\* C10: the snapshot that the Reset of a TLockSuspend returned is kept by
\* the guard until its destruction, is passed to Restore on the lock that
\* produced it exactly once, by the destructor, and is gone from the guard
\* after that; no other operation issues a Restore.
C10_SnapshotRestoredOnce ==
    /\ \A t \in Threads : \A i \in 1..Len(stack[t]) :
          (stack[t][i].kind = "suspend" /\ stack[t][i].ctor # Null) =>
              /\ stack[t][i].fMutex = stack[t][i].ctor
              /\ stack[t][i].fState.lock = stack[t][i].ctor
              /\ stack[t][i].fState.depth = DepthOf(stack[t][i].pre, t)
    /\ (last.op = "SuspendCtor" /\ last.obj.ctor # Null) =>
          /\ last.calls = <<Call("Reset", last.obj.ctor, last.obj.fState)>>
          /\ last.obj.fState.lock = last.obj.ctor
    /\ (last.op = "SuspendDtor" /\ last.obj.ctor # Null) =>
          /\ Len(last.calls) = 1
          /\ last.calls[1].op = "Restore"
          /\ last.calls[1].m = last.obj.ctor
          /\ last.calls[1].state.lock = last.obj.ctor
          /\ last.calls[1].state.depth = DepthOf(last.obj.pre, last.t)
          /\ last.obj.fState = NullState
    /\ last.op # "SuspendDtor" =>
          \A i \in 1..Len(last.calls) : last.calls[i].op # "Restore"

\* C10 witness: the clients work on both locks; a TLockSuspend built on M2
\* at depth 1 has been destroyed, its snapshot restored on M2.
C10_Witness ==
    /\ used = Locks
    /\ last.op = "SuspendDtor"
    /\ last.obj.ctor = "M2"
    /\ last.calls = <<Call("Restore", "M2", [lock |-> "M2", depth |-> 1])>>
    /\ HoldDepth(last.t, "M2") = 1

-----------------------------------------------------------------------------
(* Status codes.                                                           *)

\* The status the backend returned for call c, made by thread t in lock
\* map s.
StatusOf(c, s, t) ==
    CASE c.op = "Lock" -> Lock(s, t, c.m).ret
      [] c.op = "TryLock" -> TryLock(s, t, c.m).ret
      [] c.op = "UnLock" -> UnLock(s, t, c.m).ret
      [] OTHER -> 0

\* C11: guards never swallow errors of the backend: the status lock()
\* returns during the construction of a TLockGuard, and the status unlock()
\* returns during its destruction, reaches the caller of the guard.
C11_Original ==
    (last.op \in {"GuardCtor", "GuardDtor"} /\ last.calls # <<>>)
        => last.ret = StatusOf(last.calls[1], last.before, last.t)

\* C12: TLockGuard::UnLock() on a guard that still holds its lock calls
\* unlock() once and returns exactly the status unlock() returned; on a guard
\* that holds nothing (constructed with a null pointer, or unlocked before)
\* it returns 0 and leaves the locks alone, so a second UnLock() returns 0.
C12_UnLockStatus ==
    last.op = "GuardUnLock" =>
        LET g == last.obj
        IN /\ g.fMutex = Null
           /\ IF last.calls # <<>>
              THEN /\ last.calls = <<Call("UnLock", g.ctor, NullState)>>
                   /\ last.ret = UnLock(last.before, last.t, g.ctor).ret
                   /\ g.unlocks = 1
              ELSE /\ last.ret = 0
                   /\ mtx = last.before
                   /\ (g.ctor = Null \/ g.unlocks = 1)

\* An explicit UnLock() returned the nonzero status of the backend: the guard
\* was built while another thread held the lock, so its thread holds nothing.
C12_Witness ==
    /\ last.op = "GuardUnLock"
    /\ last.calls # <<>>
    /\ last.ret # 0
    /\ last.before["M1"].owner \notin {last.t, NoThread}

\* C15: a TLockSuspend built by a thread that does not hold the lock takes
\* the snapshot "unheld" and changes no lock; its destruction restores that
\* snapshot and changes no lock either, so that a thread whose unlock() calls
\* all had a hold to match is left not holding the lock; a hold another
\* thread had on the lock is changed neither by the guard's Reset() nor by
\* its Restore().
C15_UnheldSuspend ==
    /\ (/\ last.op = "SuspendCtor"
        /\ last.obj.ctor # Null
        /\ DepthOf(last.before[last.obj.ctor], last.t) = 0)
           => /\ last.obj.fState = [lock |-> last.obj.ctor, depth |-> 0]
              /\ last.calls = <<Call("Reset", last.obj.ctor, last.obj.fState)>>
              /\ mtx = last.before
    /\ (/\ last.op = "SuspendDtor"
        /\ last.obj.ctor # Null
        /\ DepthOf(last.obj.pre, last.t) = 0)
           => /\ Matched(last.t) => HoldDepth(last.t, last.obj.ctor) = 0
              /\ last.calls = <<Call("Restore", last.obj.ctor,
                                     [lock |-> last.obj.ctor, depth |-> 0])>>
              /\ mtx = last.before

\* A TLockSuspend was built on a lock another thread held twice and has been
\* destroyed while that thread still holds it twice.
C15_Witness ==
    /\ Matched(last.t)
    /\ last.op = "SuspendDtor"
    /\ last.obj.ctor = "M1"
    /\ last.obj.pre.owner \notin {last.t, NoThread}
    /\ last.obj.pre.count = 2
    /\ mtx["M1"] = last.obj.pre

\* No guard that thread t has open on lock m was released early by UnLock():
\* the guards of t on m are closed by their destructors alone.
WellNested(t, m) ==
    \A i \in 1..Len(stack[t]) :
        (stack[t][i].kind = "guard" /\ stack[t][i].ctor = m)
            => ~stack[t][i].released

\* The k outermost open frames of thread t are TLockGuards on lock m, none
\* released.
GuardsBelow(t, m, k) ==
    /\ k <= Len(stack[t])
    /\ \A i \in 1..k : /\ stack[t][i].kind = "guard"
                       /\ stack[t][i].ctor = m
                       /\ ~stack[t][i].released

\* C19: guards compose.  With the TLockGuards and TLockSuspends of a thread
\* on a lock closed innermost first and by their destructors alone (no
\* UnLock() on a guard still open, none ever on a guard whose hold was
\* suspended), the thread's hold depth after the destruction of a guard is
\* its depth right before the construction of that guard; inside a
\* TLockSuspend scope opened within k TLockGuard scopes the depth is 0, and
\* after the destruction of the TLockSuspend it is k again.
C19_Composition ==
    /\ (/\ last.op \in {"GuardDtor", "SuspendDtor"}
        /\ last.obj.ctor # Null
        /\ ~last.obj.released
        /\ Matched(last.t)
        /\ WellNested(last.t, last.obj.ctor))
           => HoldDepth(last.t, last.obj.ctor)
                  = DepthOf(last.obj.pre, last.t)
    /\ \A t \in Threads, m \in Locks, k \in 0..MaxStack :
           /\ (/\ Len(stack[t]) = k + 1
               /\ Top(t).kind = "suspend"
               /\ Top(t).ctor = m
               /\ Matched(t)
               /\ GuardsBelow(t, m, k))
                  => /\ HoldDepth(t, m) = 0
                     /\ DepthOf(Top(t).pre, t) = k
           /\ (/\ last.op = "SuspendDtor"
               /\ last.t = t
               /\ last.obj.ctor = m
               /\ Len(stack[t]) = k
               /\ Matched(t)
               /\ GuardsBelow(t, m, k))
                  => HoldDepth(t, m) = k

\* A TLockSuspend opened inside two TLockGuard scopes has been destroyed:
\* the depth is 2 again.
C19_Witness ==
    /\ Matched("A")
    /\ last.op = "SuspendDtor"
    /\ last.t = "A"
    /\ last.obj.ctor = "M1"
    /\ GuardsBelow("A", "M1", 2)
    /\ Len(stack["A"]) = 2
    /\ HoldDepth("A", "M1") = 2

-----------------------------------------------------------------------------
\* C16: lazy creation in R__LOCKGUARD2.  With gGlobalMutex set and threads
\* running the macro concurrently on a null mutex pointer, Factory(kTRUE) is
\* called at most once, the guard of every thread locks the one lock that
\* call created, and a thread holds gGlobalMutex no deeper than before the
\* macro when it goes to lock the created lock; with gGlobalMutex null and
\* the pointer null the macro calls neither Factory() nor a lock operation.
C16_LazyCreation ==
    /\ glob.made <= 1
    /\ glob.made = 1 => glob.mutex = Factory(0)
    /\ \A t \in Threads :
          pc[t].macro = "LOCKGUARD2" =>
             /\ (glob.gGlobalMutex # Null /\ pc[t].at \in {"guard", "body"})
                   => /\ glob.mutex # Null
                      /\ HoldDepth(t, glob.gGlobalMutex) = pc[t].held
             /\ (glob.gGlobalMutex # Null /\ pc[t].at = "body")
                   => /\ Top(t).kind = "guard"
                      /\ Top(t).ctor = glob.mutex
                      /\ last.t = t
                            => last.calls
                                 = <<Call("Lock", glob.mutex, NullState)>>
                      /\ HoldDepth(t, glob.mutex) >= 1
             /\ (glob.gGlobalMutex = Null /\ glob.mutex = Null /\ last.t = t)
                   => /\ last.calls = <<>>
                      /\ glob.made = 0
                      /\ mtx = last.before

\* Both threads found the pointer null and went through the block under
\* gGlobalMutex; one Factory() call was made; A holds the created lock and B,
\* which has released gGlobalMutex, is about to wait for it.
C16_Witness ==
    /\ \A t \in Threads : pc[t].macro = "LOCKGUARD2" /\ pc[t].entered
    /\ glob.made = 1
    /\ pc["A"].at = "body"
    /\ HoldDepth("A", Factory(0)) = 1
    /\ pc["B"].at = "guard"
    /\ HoldDepth("B", glob.gGlobalMutex) = 0

\* C17: with parallel branch processing enabled and a non-null mutex, the
\* lock taken by R__LOCKGUARD_IMT(mutex) is held by the thread during the
\* statements that follow the macro, as with R__LOCKGUARD(mutex).
C17_Original ==
    \A t \in Threads :
        (/\ IsParBranchProcessingEnabled
         /\ pc[t].macro \in {"IMT", "LOCKGUARD"}
         /\ pc[t].at = "body"
         /\ pc[t].arg # Null)
            => HoldDepth(t, pc[t].arg) >= 1

\* C18: with parallel branch processing disabled, R__LOCKGUARD_IMT(mutex) and
\* R__LOCKGUARD_IMT2(mutex) call neither Lock() nor UnLock() nor Factory(), on
\* the mutex or on gGlobalMutex, whatever the pointer.
C18_Original ==
    \A t \in Threads :
        (/\ ~IsParBranchProcessingEnabled
         /\ pc[t].macro \in {"IMT", "IMT2"}
         /\ last.t = t
         /\ last.op # "Release")
            => last.calls = <<>>

-----------------------------------------------------------------------------
\* The waiter is inside its TLockSuspend scope, in the given mode, having
\* held the lock at depth n when it opened the scope.
Suspended(mode, n) ==
    /\ pc[Waiter].macro = mode
    /\ pc[Waiter].at = "wait"
    /\ pc[Waiter].held = n

\* The destructor of the waiter's TLockSuspend has just returned and the
\* waiter holds the lock at depth n.
Resumed(n) ==
    /\ pc[Waiter].at = "done"
    /\ last.op = "SuspendDtor"
    /\ last.t = Waiter
    /\ HoldDepth(Waiter, "M1") = n

\* C13: no deadlock under suspension.  A thread that holds the lock at depth
\* n >= 1, opens a TLockSuspend on it and waits inside the scope for another
\* thread to complete a section under the lock: the other thread eventually
\* acquires the lock, the wait ends, and the TLockSuspend is destroyed with
\* the first thread holding the lock at depth n again.
C13_NoDeadlock ==
    \A n \in 1..MaxStack :
        /\ (Suspended("await", n) /\ pc[Worker].rounds = 0
                                  /\ pc[Worker].at = "begin")
              ~> (Suspended("await", n) /\ pc[Worker].at = "section"
                                        /\ HoldDepth(Worker, "M1") = 1)
        /\ Suspended("await", n)
              ~> (Resumed(n) /\ pc[Worker].rounds >= 1)

\* The waiter held the lock twice, has suspended it and waits; the worker is
\* in its first section, holding the lock.
C13_Witness ==
    /\ Suspended("await", 2)
    /\ pc[Worker].at = "section"
    /\ pc[Worker].rounds = 0
    /\ HoldDepth(Worker, "M1") = 1

\* C14: Restore completes.  When a TLockSuspend is destroyed while another
\* thread has taken the lock in the meantime, and every thread that takes
\* the lock releases it again, the Restore() of the destructor eventually
\* returns, and when it has returned the thread holds the lock at the depth
\* it had before the suspension.
C14_RestoreCompletes ==
    /\ [](last.op = "SuspendDtor"
             => HoldDepth(last.t, "M1") = DepthOf(last.obj.pre, last.t))
    /\ \A n \in 1..MaxStack :
          (Suspended("resume", n) /\ HoldDepth(Worker, "M1") = 1)
              ~> Resumed(n)

\* The waiter's TLockSuspend is due to be destroyed while the worker holds
\* the lock it took inside the waiter's scope: Restore() has to wait.
C14_Witness ==
    /\ Suspended("resume", 2)
    /\ last.op = "Lock"
    /\ last.t = Worker
    /\ HoldDepth(Worker, "M1") = 1
    /\ pc[Worker].rounds = 1

TypeOK ==
    /\ \A m \in Locks : mtx[m].owner \in Threads \cup {NoThread}
    /\ \A m \in Locks : mtx[m].count \in 0..MaxStack
    /\ \A t \in Threads : Len(stack[t]) <= MaxStack
    /\ detect \subseteq Locks
    /\ glob.gGlobalMutex \in {Null, GlobalLock}
    /\ glob.mutex \in Locks \cup {Null}
    /\ glob.imt \in BOOLEAN
    /\ glob.made \in 0..1
    /\ \A t \in Threads : /\ pc[t].macro \in Macros \cup {"none", "await",
                                                          "resume", "worker"}
                           /\ pc[t].seen \in Locks \cup {Null}
                           /\ pc[t].arg \in Locks \cup {Null}
                           /\ pc[t].entered \in BOOLEAN
                           /\ pc[t].held \in 0..MaxStack
                           /\ pc[t].rounds \in 0..MaxRounds

====
